---- MODULE Spec2Model ----
(***************************************************************************)
(* Model of PolymarketMonitor (src/polymarket_monitor.py): the alert rule  *)
(* engine (should_exclude, calculate_delta, should_alert), the digest      *)
(* filter of build_daily_report, the atomic baseline write                 *)
(* (_atomic_write_json) and the scan handler (scan_and_alert).             *)
(*                                                                         *)
(* Numbers are fixed point with two decimals: the integer n stands for     *)
(* n / 100.  A one_day_price_change of 0.05 is 5, calculate_delta gives    *)
(* 5 * 100 = 500, i.e. 5.00 percentage points, and the thresholds 5.0 and  *)
(* 2.0 are 500 and 200.  Volumes are whole currency units.                 *)
(*                                                                         *)
(* Strings that the code inspects (titles) are sequences of one-character  *)
(* strings; the two CJK characters of the keyword are written "U53F0" and  *)
(* "U7063".  A JSON value that may be a number, a string or null is a      *)
(* tagged record [t, n].                                                   *)
(***************************************************************************)
EXTENDS Integers, Sequences, FiniteSets

VARIABLES
    file,           \* the file at history_path: [kind, data]
    tmp_file,       \* the temporary file of the save in progress / last save
    remove_failed,  \* os.remove(tmp_path) of the last failed save raised
    is_cold_start,  \* self.is_cold_start
    daily_mode,     \* self.daily_mode
    pc,             \* position of the process
    history,        \* scan_and_alert: history, as loaded at scan start
    events,         \* scan_and_alert: events, as fetched
    pending,        \* the dict handed to save_history
    branch,         \* which branch of scan_and_alert runs
    decisions,      \* log of the should_alert calls of the scan
    report,         \* result of build_daily_report of the scan
    outcome         \* how the last scan ended

vars == <<file, tmp_file, remove_failed, is_cold_start, daily_mode, pc,
          history, events, pending, branch, decisions, report, outcome>>

----------------------------------------------------------------------------
(* Bounds *)

MaxEvents == 2      \* longest fetched list in Spec

----------------------------------------------------------------------------
(* JSON values *)

Num(n) == [t |-> "num", n |-> n]
StrVal == [t |-> "str", n |-> 0]      \* a text placeholder such as "N/A"
NoneVal == [t |-> "none", n |-> 0]    \* None / key missing

Abs(n) == IF n < 0 THEN 0 - n ELSE n

EmptyDict == [k \in {} |-> 0]

----------------------------------------------------------------------------
(* __init__ : thresholds and keywords *)

VOLATILITY_THRESHOLD == 500
INCREMENT_THRESHOLD == 200
HIGH_VOLUME_THRESHOLD == 150000

kwTaiwan == <<"T", "a", "i", "w", "a", "n">>
kwCJK == <<"U53F0", "U7063">>
kwtaiwan == <<"t", "a", "i", "w", "a", "n">>
EXCLUDE_KEYWORDS == {kwTaiwan, kwCJK, kwtaiwan}

----------------------------------------------------------------------------
(* str.lower and the substring test of should_exclude *)

lower_char(c) ==
    CASE c = "T" -> "t"
      [] c = "A" -> "a"
      [] c = "I" -> "i"
      [] c = "W" -> "w"
      [] c = "N" -> "n"
      [] c = "B" -> "b"
      [] OTHER -> c

lower(s) == [i \in 1..Len(s) |-> lower_char(s[i])]

\* Python's `kw in s` for strings
Contains(kw, s) ==
    \E i \in 0..(Len(s) - Len(kw)) : SubSeq(s, i + 1, i + Len(kw)) = kw

\* mutant: the title is compared without lower-casing
should_exclude_CaseSensitive(title) ==
    \E keyword \in EXCLUDE_KEYWORDS : Contains(keyword, title)

\* mutant: an empty title is excluded
should_exclude_FailClosed(title) ==
    \/ title = <<>>
    \/ \E keyword \in EXCLUDE_KEYWORDS : Contains(lower(keyword), lower(title))

should_exclude(title) ==
    LET title_lower == lower(title)
    IN  \E keyword \in EXCLUDE_KEYWORDS : Contains(lower(keyword), title_lower)

calculate_delta(one_day_price_change) ==
    IF one_day_price_change.t = "none"
    THEN 0
    ELSE one_day_price_change.n * 100

\* event.get('question') or event.get('title', '')
TitleOf(event) ==
    IF event.question # <<>> THEN event.question ELSE event.title

----------------------------------------------------------------------------
(* should_alert *)

Result(flag, type, change) ==
    [should_alert |-> flag, alert_type |-> type, delta_change |-> change,
     raised |-> ""]

NoAlert == Result(FALSE, "", NoneVal)

\* `volume >= self.HIGH_VOLUME_THRESHOLD` between a str and an int
TypeError ==
    [should_alert |-> FALSE, alert_type |-> "", delta_change |-> NoneVal,
     raised |-> "TypeError"]

\* mutant: the volume comparison is strict
should_alert_StrictVolume(event, hist) ==
    IF daily_mode THEN NoAlert
    ELSE
    LET event_id == event.slug
        title == TitleOf(event)
        volume == event.volume
        current_delta == calculate_delta(event.one_day_price_change)
        is_new_event == event_id \notin DOMAIN hist
    IN  IF should_exclude(title) THEN NoAlert
        ELSE IF is_new_event /\ volume.t # "num" THEN TypeError
        ELSE IF is_new_event /\ volume.n > HIGH_VOLUME_THRESHOLD
             THEN Result(TRUE, "high_volume", NoneVal)
        ELSE IF is_new_event /\ Abs(current_delta) >= VOLATILITY_THRESHOLD
             THEN Result(TRUE, "new_event", NoneVal)
        ELSE IF ~is_new_event
             THEN LET delta_change == current_delta - hist[event_id].delta
                  IN  IF Abs(delta_change) >= INCREMENT_THRESHOLD
                      THEN Result(TRUE, "new_volatility", Num(delta_change))
                      ELSE NoAlert
        ELSE NoAlert

\* mutant: the incremental change is compared without abs()
should_alert_NoAbs(event, hist) ==
    IF daily_mode THEN NoAlert
    ELSE
    LET event_id == event.slug
        title == TitleOf(event)
        volume == event.volume
        current_delta == calculate_delta(event.one_day_price_change)
        is_new_event == event_id \notin DOMAIN hist
    IN  IF should_exclude(title) THEN NoAlert
        ELSE IF is_new_event /\ volume.t # "num" THEN TypeError
        ELSE IF is_new_event /\ volume.n >= HIGH_VOLUME_THRESHOLD
             THEN Result(TRUE, "high_volume", NoneVal)
        ELSE IF is_new_event /\ Abs(current_delta) >= VOLATILITY_THRESHOLD
             THEN Result(TRUE, "new_event", NoneVal)
        ELSE IF ~is_new_event
             THEN LET delta_change == current_delta - hist[event_id].delta
                  IN  IF delta_change >= INCREMENT_THRESHOLD
                      THEN Result(TRUE, "new_volatility", Num(delta_change))
                      ELSE NoAlert
        ELSE NoAlert

should_alert(event, hist) ==
    IF daily_mode THEN NoAlert
    ELSE
    LET event_id == event.slug
        title == TitleOf(event)
        volume == event.volume
        current_delta == calculate_delta(event.one_day_price_change)
        is_new_event == event_id \notin DOMAIN hist
    IN  IF should_exclude(title) THEN NoAlert
        \* `is_new_event and volume >= ...` : the comparison is evaluated
        \* only for a new event, and raises for a str volume
        ELSE IF is_new_event /\ volume.t # "num" THEN TypeError
        ELSE IF is_new_event /\ volume.n >= HIGH_VOLUME_THRESHOLD
             THEN Result(TRUE, "high_volume", NoneVal)
        ELSE IF is_new_event /\ Abs(current_delta) >= VOLATILITY_THRESHOLD
             THEN Result(TRUE, "new_event", NoneVal)
        ELSE IF ~is_new_event
             THEN LET delta_change == current_delta - hist[event_id].delta
                  IN  IF Abs(delta_change) >= INCREMENT_THRESHOLD
                      THEN Result(TRUE, "new_volatility", Num(delta_change))
                      ELSE NoAlert
        ELSE NoAlert

----------------------------------------------------------------------------
(* build_daily_report : filter, top volume 5, top gainers 3 *)

Item(ev) ==
    [title |-> TitleOf(ev),
     \* ev.get('volume', 0) or 0
     volume |-> IF ev.volume.t = "none" THEN Num(0) ELSE ev.volume,
     change_pct |-> calculate_delta(ev.one_day_price_change),
     slug |-> ev.slug]

RECURSIVE filter_events(_, _)
filter_events(evts, i) ==
    IF i > Len(evts) THEN <<>>
    ELSE IF should_exclude(TitleOf(evts[i]))
         THEN filter_events(evts, i + 1)
         ELSE <<Item(evts[i])>> \o filter_events(evts, i + 1)

VolumeKey(item) == item.volume.n
ChangeKey(item) == item.change_pct

\* stable insertion into a list sorted descending, after its equals
RECURSIVE InsertDesc(_, _, _)
InsertDesc(x, s, byVolume) ==
    IF s = <<>> THEN <<x>>
    ELSE LET kx == IF byVolume THEN VolumeKey(x) ELSE ChangeKey(x)
             kh == IF byVolume THEN VolumeKey(Head(s)) ELSE ChangeKey(Head(s))
         IN  IF kx > kh THEN <<x>> \o s
             ELSE <<Head(s)>> \o InsertDesc(x, Tail(s), byVolume)

\* sorted(items, key=..., reverse=True)
RECURSIVE sorted_desc(_, _, _)
sorted_desc(items, n, byVolume) ==
    IF n = 0 THEN <<>>
    ELSE InsertDesc(items[n], sorted_desc(items, n - 1, byVolume), byVolume)

Take(s, n) == SubSeq(s, 1, IF Len(s) < n THEN Len(s) ELSE n)

NoReport == [text |-> "", top_volume |-> <<>>, top_gainers |-> <<>>,
             raised |-> ""]

build_daily_report(evts) ==
    IF evts = <<>> THEN NoReport
    ELSE
    LET filtered == filter_events(evts, 1)
    IN  IF filtered = <<>> THEN NoReport
        \* a str volume raises TypeError in sorted() or format_short_volume
        ELSE IF \E i \in 1..Len(filtered) : filtered[i].volume.t # "num"
             THEN [NoReport EXCEPT !.raised = "TypeError"]
        ELSE [text |-> "report",
              top_volume |-> Take(sorted_desc(filtered, Len(filtered), TRUE), 5),
              top_gainers |-> Take(sorted_desc(filtered, Len(filtered), FALSE), 3),
              raised |-> ""]

----------------------------------------------------------------------------
(* The baseline file and load_history *)

Absent == [kind |-> "absent", data |-> EmptyDict]
EmptyFile == [kind |-> "empty", data |-> EmptyDict]     \* zero bytes
PartialFile == [kind |-> "partial", data |-> EmptyDict] \* truncated JSON
JsonFile(d) == [kind |-> "json", data |-> d]

\* not exists() or st_size == 0
ColdStartOf(f) == f.kind \in {"absent", "empty"}

load_history(f) == IF f.kind = "json" THEN f.data ELSE EmptyDict

\* the record scan_and_alert stores for an event (last_updated, a wall
\* clock string that nothing reads, is left out)
BaselineRecord(ev) ==
    [delta |-> calculate_delta(ev.one_day_price_change),
     volume |-> ev.volume,
     title |-> TitleOf(ev)]

Put(d, k, v) == [x \in (DOMAIN d) \cup {k} |-> IF x = k THEN v ELSE d[x]]

----------------------------------------------------------------------------
(* scan_and_alert : branch selection and the three loops *)

\* mutant: no early return on an empty fetch
ScanBranch_NoEarlyReturn(evts, cold, daily) ==
    IF cold /\ ~daily THEN "cold"
    ELSE IF daily THEN "digest"
    ELSE "normal"

ScanBranch(evts, cold, daily) ==
    IF evts = <<>> THEN "nodata"
    ELSE IF cold /\ ~daily THEN "cold"
    ELSE IF daily THEN "digest"
    ELSE "normal"

RECURSIVE cold_history(_, _, _)
cold_history(evts, i, new_history) ==
    IF i > Len(evts) THEN new_history
    ELSE LET event == evts[i]
         IN  IF event.slug # "" /\ ~should_exclude(TitleOf(event))
             THEN cold_history(evts, i + 1,
                      Put(new_history, event.slug, BaselineRecord(event)))
             ELSE cold_history(evts, i + 1, new_history)

RECURSIVE digest_history(_, _, _)
digest_history(evts, i, updated_history) ==
    IF i > Len(evts) THEN updated_history
    ELSE LET event == evts[i]
         IN  IF event.slug = ""
             THEN digest_history(evts, i + 1, updated_history)
             ELSE digest_history(evts, i + 1,
                      Put(updated_history, event.slug, BaselineRecord(event)))

Call(event, result) == [event |-> event, result |-> result]

\* mutant: the alert is decided against the baseline being updated
RECURSIVE normal_scan_Updated(_, _, _, _)
normal_scan_Updated(evts, i, hist, acc) ==
    IF i > Len(evts) THEN acc
    ELSE LET event == evts[i]
         IN  IF event.slug = "" THEN normal_scan_Updated(evts, i + 1, hist, acc)
             ELSE
             LET updated == Put(acc.updated_history, event.slug,
                                BaselineRecord(event))
                 res == should_alert(event, acc.updated_history)
                 acc2 == [updated_history |-> updated,
                          decisions |-> Append(acc.decisions, Call(event, res)),
                          raised |-> res.raised]
             IN  IF res.raised # "" THEN acc2
                 ELSE normal_scan_Updated(evts, i + 1, hist, acc2)

RECURSIVE normal_scan(_, _, _, _)
normal_scan(evts, i, hist, acc) ==
    IF i > Len(evts) THEN acc
    ELSE LET event == evts[i]
         IN  IF event.slug = "" THEN normal_scan(evts, i + 1, hist, acc)
             ELSE
             LET updated == Put(acc.updated_history, event.slug,
                                BaselineRecord(event))
                 res == should_alert(event, hist)
                 acc2 == [updated_history |-> updated,
                          decisions |-> Append(acc.decisions, Call(event, res)),
                          raised |-> res.raised]
             IN  \* an exception leaves the loop and scan_and_alert
                 IF res.raised # "" THEN acc2
                 ELSE normal_scan(evts, i + 1, hist, acc2)

\* updated_history = history.copy(), no decision yet
LoopStart(hist) ==
    [updated_history |-> hist, decisions |-> <<>>, raised |-> ""]

----------------------------------------------------------------------------
(* _atomic_write_json : effect of each step on (history file, temp file) *)

\* mutant: json.dump writes to history_path itself
WriteChunk_InPlace(f, t) == [file |-> PartialFile, tmp |-> t]

\* json.dump has written part of the document to the temp file
WriteChunk(f, t) == [file |-> f, tmp |-> "partial"]

\* os.replace(tmp_path, self.history_path)
os_replace(f, data) == [file |-> JsonFile(data), tmp |-> "none"]

----------------------------------------------------------------------------
(* Inputs *)

tBtc == <<"B", "t", "c">>
tUpper == <<"T", "A", "I", "W", "A", "N">>
tInside == <<"B", "T", "a", "i", "w", "a", "n", "c">>
tCJK == <<"B", "U53F0", "U7063">>
tNear == <<"T", "a", "i", "w", "a">>

Event(slug, question, title, volume, change) ==
    [slug |-> slug, question |-> question, title |-> title,
     volume |-> volume, one_day_price_change |-> change]

\* what one fetch may contain, in Spec
Feed ==
    { Event("m1", tBtc, <<>>, Num(150000), NoneVal),
      Event("m1", tBtc, <<>>, Num(149999), Num(2)),
      Event("m1", <<>>, tNear, Num(149999), Num(0 - 5)),
      Event("m2", tUpper, <<>>, Num(150000), Num(0 - 5)),
      Event("m2", <<>>, <<>>, Num(150000), Num(3)),
      Event("m2", tBtc, <<>>, StrVal, Num(1)),
      Event("", tBtc, <<>>, Num(150000), Num(0 - 5)) }

Fetches == UNION { [1..n -> Feed] : n \in 0..MaxEvents }

\* the inputs of SpecAlert: every combination of the field values
Slugs == {"", "m1", "m2"}
Questions == {<<>>, tBtc, tUpper}
Titles == {<<>>, tInside, tCJK, tNear}
Volumes == {Num(149999), Num(150000), StrVal}
Changes == {NoneVal, Num(0 - 5), Num(1), Num(3), Num(5)}
AllEvents ==
    { Event(s, q, t, v, c) :
        s \in Slugs, q \in Questions, t \in Titles, v \in Volumes, c \in Changes }

Deltas == {0 - 500, 0, 100, 300}
Records == { [delta |-> d, volume |-> Num(0), title |-> tBtc] : d \in Deltas }
AllBaselines == UNION { [ids -> Records] : ids \in SUBSET {"m1", "m2"} }

----------------------------------------------------------------------------
(* Spec : the process, its scans and the steps of the baseline write *)

Init ==
    /\ file \in {Absent, EmptyFile}
    /\ tmp_file = "none"
    /\ remove_failed = FALSE
    /\ is_cold_start = ColdStartOf(file)
    /\ daily_mode \in BOOLEAN
    /\ pc = "idle"
    /\ history = EmptyDict
    /\ events = <<>>
    /\ pending = EmptyDict
    /\ branch = "none"
    /\ decisions = <<>>
    /\ report = NoReport
    /\ outcome = "none"

\* main() / __init__ : a new process is started on the same history file
Start ==
    /\ pc \in {"idle", "returned", "dead"}
    /\ is_cold_start' = ColdStartOf(file)
    /\ daily_mode' \in BOOLEAN
    /\ pc' = "idle"
    /\ history' = EmptyDict
    /\ events' = <<>>
    /\ pending' = EmptyDict
    /\ branch' = "none"
    /\ decisions' = <<>>
    /\ report' = NoReport
    /\ outcome' = "none"
    /\ UNCHANGED <<file, tmp_file, remove_failed>>

\* scan_and_alert up to the branch: load_history, fetch
BeginScan(evts, b) ==
    /\ pc = "idle"
    /\ ScanBranch(evts, is_cold_start, daily_mode) = b
    /\ history' = load_history(file)
    /\ events' = evts
    /\ branch' = b
    /\ report' = NoReport

\* `if not events: return`
ScanNoData ==
    \E evts \in Fetches :
        /\ BeginScan(evts, "nodata")
        /\ decisions' = <<>>
        /\ outcome' = "nodata"
        /\ pc' = "returned"
        /\ UNCHANGED <<file, tmp_file, remove_failed, is_cold_start,
                       daily_mode, pending>>

ScanColdStart ==
    \E evts \in Fetches :
        /\ BeginScan(evts, "cold")
        /\ pending' = cold_history(evts, 1, EmptyDict)
        /\ decisions' = <<>>
        /\ outcome' = "saving"
        /\ pc' = "mkstemp"
        /\ tmp_file' = "none"
        /\ remove_failed' = FALSE
        /\ UNCHANGED <<file, is_cold_start, daily_mode>>

ScanDigest ==
    \E evts \in Fetches :
        /\ BeginScan(evts, "digest")
        /\ pending' = digest_history(evts, 1, load_history(file))
        /\ decisions' = <<>>
        /\ outcome' = "saving"
        /\ pc' = "mkstemp"
        /\ tmp_file' = "none"
        /\ remove_failed' = FALSE
        /\ UNCHANGED <<file, is_cold_start, daily_mode>>

ScanNormal ==
    \E evts \in Fetches :
        /\ BeginScan(evts, "normal")
        /\ LET hist == load_history(file)
               r == normal_scan(evts, 1, hist, LoopStart(hist))
           IN  /\ decisions' = r.decisions
               /\ IF r.raised # ""
                  THEN /\ outcome' = "type_error"
                       /\ pc' = "dead"
                       /\ UNCHANGED <<pending, tmp_file, remove_failed>>
                  ELSE /\ pending' = r.updated_history
                       /\ outcome' = "saving"
                       /\ pc' = "mkstemp"
                       /\ tmp_file' = "none"
                       /\ remove_failed' = FALSE
        /\ UNCHANGED <<file, is_cold_start, daily_mode>>

\* tempfile.mkstemp(dir=..., suffix=".tmp")
Mkstemp ==
    /\ pc = "mkstemp"
    /\ tmp_file' = "empty"
    /\ pc' = "dump"
    /\ UNCHANGED <<file, remove_failed, is_cold_start, daily_mode, history,
                   events, pending, branch, decisions, report, outcome>>

\* mkstemp raises: it is outside the try, nothing to clean up
MkstempFails ==
    /\ pc = "mkstemp"
    /\ outcome' = "io_error"
    /\ pc' = "dead"
    /\ UNCHANGED <<file, tmp_file, remove_failed, is_cold_start, daily_mode,
                   history, events, pending, branch, decisions, report>>

\* json.dump, first part of the document
DumpChunk ==
    /\ pc = "dump"
    /\ LET w == WriteChunk(file, tmp_file)
       IN  file' = w.file /\ tmp_file' = w.tmp
    /\ pc' = "dump_rest"
    /\ UNCHANGED <<remove_failed, is_cold_start, daily_mode, history, events,
                   pending, branch, decisions, report, outcome>>

\* json.dump, rest of the document
DumpRest ==
    /\ pc = "dump_rest"
    /\ tmp_file' = "complete"
    /\ pc' = "fsync"
    /\ UNCHANGED <<file, remove_failed, is_cold_start, daily_mode, history, events,
                   pending, branch, decisions, report, outcome>>

\* tmp_file.flush(); os.fsync(); close
Fsync ==
    /\ pc = "fsync"
    /\ pc' = "replace"
    /\ UNCHANGED <<file, tmp_file, remove_failed, is_cold_start, daily_mode,
                   history, events, pending, branch, decisions, report,
                   outcome>>

\* os.replace succeeds, save_history returns and the branch runs to its end
Replace ==
    /\ pc = "replace"
    /\ LET w == os_replace(file, pending)
       IN  file' = w.file /\ tmp_file' = w.tmp
    /\ LET rep == IF branch = "digest" THEN build_daily_report(events)
                  ELSE NoReport
       IN  /\ report' = rep
           /\ outcome' = (IF rep.raised # "" THEN "type_error" ELSE branch)
           /\ pc' = (IF rep.raised # "" THEN "dead" ELSE "returned")
    /\ is_cold_start' = (IF branch = "cold" THEN FALSE ELSE is_cold_start)
    /\ UNCHANGED <<remove_failed, daily_mode, history, events, pending,
                   branch, decisions>>

\* an Exception inside the try: os.remove(tmp_path) is attempted, its own
\* failure is swallowed, and the exception is re-raised out of the scan
SaveFails ==
    /\ pc \in {"dump", "dump_rest", "fsync", "replace"}
    /\ \E removed \in BOOLEAN :
        /\ tmp_file' = (IF removed THEN "none" ELSE tmp_file)
        /\ remove_failed' = ~removed
    /\ outcome' = "io_error"
    /\ pc' = "dead"
    /\ UNCHANGED <<file, is_cold_start, daily_mode, history, events, pending,
                   branch, decisions, report>>

\* the process is killed or interrupted during the save
Kill ==
    /\ pc \in {"mkstemp", "dump", "dump_rest", "fsync", "replace"}
    /\ outcome' = "killed"
    /\ pc' = "dead"
    /\ UNCHANGED <<file, tmp_file, remove_failed, is_cold_start, daily_mode,
                   history, events, pending, branch, decisions, report>>

\* scan_and_alert has returned, its locals are gone; run_hourly waits for
\* the next hour
Return ==
    /\ pc = "returned"
    /\ pc' = "idle"
    /\ history' = EmptyDict
    /\ events' = <<>>
    /\ pending' = EmptyDict
    /\ branch' = "none"
    /\ decisions' = <<>>
    /\ report' = NoReport
    /\ outcome' = "none"
    /\ UNCHANGED <<file, tmp_file, remove_failed, is_cold_start, daily_mode>>

Next ==
    \/ Start
    \/ Return
    \/ ScanNoData
    \/ ScanColdStart
    \/ ScanDigest
    \/ ScanNormal
    \/ Mkstemp
    \/ MkstempFails
    \/ DumpChunk
    \/ DumpRest
    \/ Fsync
    \/ Replace
    \/ SaveFails
    \/ Kill

Spec == Init /\ [][Next]_vars

----------------------------------------------------------------------------
(* SpecAlert : should_alert and build_daily_report applied to every input *)

InitAlert ==
    /\ events \in { <<e>> : e \in AllEvents }
    /\ history \in AllBaselines
    /\ daily_mode \in BOOLEAN
    /\ pc = "input"
    /\ file = JsonFile(history)
    /\ tmp_file = "none"
    /\ remove_failed = FALSE
    /\ is_cold_start = FALSE
    /\ pending = EmptyDict
    /\ branch = "none"
    /\ decisions = <<>>
    /\ report = NoReport
    /\ outcome = "none"

ApplyShouldAlert ==
    /\ pc = "input"
    /\ decisions' = <<Call(events[1], should_alert(events[1], history))>>
    /\ pc' = "alerted"
    /\ UNCHANGED <<file, tmp_file, remove_failed, is_cold_start, daily_mode,
                   history, events, pending, branch, report, outcome>>

ApplyBuildReport ==
    /\ pc = "alerted"
    /\ report' = build_daily_report(events)
    /\ pc' = "reported"
    /\ UNCHANGED <<file, tmp_file, remove_failed, is_cold_start, daily_mode,
                   history, events, pending, branch, decisions, outcome>>

NextAlert == ApplyShouldAlert \/ ApplyBuildReport

SpecAlert == InitAlert /\ [][NextAlert]_vars

----------------------------------------------------------------------------
(* The properties, stated independently of the definitions above *)

\* the delta of a snapshot: one-day price change * 100, 0 when missing
SnapshotDelta(e) ==
    IF e.one_day_price_change.t = "none" THEN 0
    ELSE 100 * e.one_day_price_change.n

\* the title holds a denylisted term, compared case-insensitively
Denylisted(title) ==
    \/ Contains(<<"t", "a", "i", "w", "a", "n">>, lower(title))
    \/ Contains(<<"U53F0", "U7063">>, title)

\* decision for an id absent from the baseline (5.0 is 500)
NewMarketDecision(e) ==
    IF e.volume.n >= 150000 THEN Result(TRUE, "high_volume", NoneVal)
    ELSE IF Abs(SnapshotDelta(e)) >= 500 THEN Result(TRUE, "new_event", NoneVal)
    ELSE NoAlert

\* decision for an id present in the baseline (2.0 is 200)
KnownMarketDecision(e, hist) ==
    LET change == SnapshotDelta(e) - hist[e.slug].delta
    IN  IF change >= 200 \/ change <= 0 - 200
        THEN Result(TRUE, "new_volatility", Num(change))
        ELSE NoAlert

\* the whole per-event rule, including the error for a text volume
DecisionAgainst(e, hist) ==
    IF Denylisted(TitleOf(e)) THEN NoAlert
    ELSE IF e.slug \in DOMAIN hist THEN KnownMarketDecision(e, hist)
    ELSE IF e.volume.t # "num" THEN TypeError
    ELSE NewMarketDecision(e)

InReport(e) ==
    /\ \E i \in DOMAIN report.top_volume : report.top_volume[i] = Item(e)
    /\ \E i \in DOMAIN report.top_gainers : report.top_gainers[i] = Item(e)

\* index of the last entry of the fetched list with the slug of entry i
LastOf(i) ==
    CHOOSE j \in DOMAIN events :
        /\ events[j].slug = events[i].slug
        /\ \A k \in DOMAIN events : events[k].slug = events[i].slug => k <= j

HasId(e) == e.slug # ""

Completed == outcome \in {"cold", "digest", "normal"}

C2_KnownMarketIncrement ==
    \A i \in DOMAIN decisions :
        LET e == decisions[i].event
            r == decisions[i].result
        IN  (/\ pc \in {"alerted", "reported"}
             /\ ~daily_mode
             /\ ~Denylisted(TitleOf(e))
             /\ e.slug \in DOMAIN history)
            => (/\ r = KnownMarketDecision(e, history)
                /\ r.alert_type \notin {"high_volume", "new_event"})

C2_Witness ==
    /\ pc = "alerted"
    /\ ~daily_mode
    /\ events[1].slug \in DOMAIN history
    /\ events[1].volume = Num(150000)
    /\ decisions[1].result.alert_type = "new_volatility"
    /\ decisions[1].result.delta_change = Num(0 - 200)

\* C3: a snapshot whose title holds a denylisted term, in any letter case,
\* gets no alert (and no error) for every baseline, volume and delta.
C3_DenylistedNeverAlerts ==
    \A i \in DOMAIN decisions :
        (pc \in {"alerted", "reported"}
            /\ Denylisted(TitleOf(decisions[i].event)))
        => decisions[i].result = NoAlert

C3_Witness ==
    /\ pc = "alerted"
    /\ ~daily_mode
    /\ TitleOf(events[1]) = tUpper
    /\ events[1].slug \notin DOMAIN history
    /\ events[1].volume = Num(150000)
    /\ decisions[1].result = NoAlert

C5_ColdStartPopulates ==
    (branch \in {"cold", "normal"} /\ history = EmptyDict)
    => /\ \A i \in DOMAIN decisions : ~decisions[i].result.should_alert
       /\ Completed =>
            \A i \in DOMAIN events :
                events[i].slug # "" => events[i].slug \in DOMAIN file.data
       /\ outcome = "cold" => ~is_cold_start

\* C6: after a scan that fetched data and completed, every fetched market
\* id is a key of the persisted baseline, with that scan's delta.
C6_EverySeenIdPersisted ==
    Completed =>
        \A i \in DOMAIN events :
            events[i].slug # "" =>
                /\ events[i].slug \in DOMAIN file.data
                /\ file.data[events[i].slug].delta
                       = SnapshotDelta(events[LastOf(i)])

\* C7: every step of a scan whose fetch returned no data leaves the
\* baseline file and the cold-start flag as they were.
C7_NoDataLeavesBaseline ==
    [][(events' = <<>> /\ branch' # "none")
        => (/\ file' = file
            /\ is_cold_start' = is_cold_start
            /\ pc' = "returned")]_vars

C7_Witness ==
    /\ outcome = "nodata"
    /\ events = <<>>
    /\ file.kind = "json"
    /\ file.data # EmptyDict
    /\ ~is_cold_start

\* C8 as stated: the baseline file is never partial, and after an I/O
\* error of the save the temporary file is gone.
C8_TempAlwaysRemoved ==
    /\ file.kind # "partial"
    /\ outcome = "io_error" => tmp_file = "none"

\* C8 amended: every step leaves the baseline file as it was or replaces
\* it by the complete new baseline; a scan returns normally from a save
\* only after that replacement; on an I/O error the temporary file is
\* removed unless the removal itself fails, and the scan ends in the error.
C8_AtomicReplace ==
    [][/\ \/ file' = file
          \/ /\ pc = "replace"
             /\ tmp_file = "complete"
             /\ file' = JsonFile(pending)
       /\ file'.kind # "partial"
       /\ (pc \in {"mkstemp", "dump", "dump_rest", "fsync", "replace"}
              /\ pc' = "returned")
          => file' = JsonFile(pending)
       /\ outcome' = "io_error"
          => (pc' = "dead" /\ (tmp_file' = "none" \/ remove_failed'))]_vars

C8_Witness ==
    /\ outcome = "io_error"
    /\ tmp_file = "none"
    /\ ~remove_failed
    /\ file.kind = "json"
    /\ file.data # EmptyDict
    /\ pending # file.data

\* C9: a fetched record with a text volume raises no error, is never a
\* high-volume new market, and does not stop the scan.
C9_TextVolumeIsZero ==
    /\ \A i \in DOMAIN decisions :
        decisions[i].event.volume.t = "str"
        => /\ decisions[i].result.raised = ""
           /\ decisions[i].result.alert_type # "high_volume"
    /\ outcome # "type_error"

\* C10: in a normal per-event scan the decision for each evaluated entry
\* is the rule applied to that entry and the baseline loaded at scan
\* start, also when the list repeats an id; a completed scan has decided
\* every entry that has an id.
C10_DecisionsUsePreScanBaseline ==
    branch = "normal" =>
        /\ \A i \in DOMAIN decisions :
            decisions[i].result = DecisionAgainst(decisions[i].event, history)
        /\ outcome = "normal" =>
            [i \in DOMAIN decisions |-> decisions[i].event]
                = SelectSeq(events, HasId)

C10_Witness ==
    /\ outcome = "normal"
    /\ Len(decisions) = 2
    /\ decisions[1].event.slug = decisions[2].event.slug
    /\ decisions[1].event.slug \notin DOMAIN history
    /\ decisions[1].result.should_alert
    /\ decisions[2].result.should_alert

====
